---- MODULE Spec2Model ----
(***************************************************************************)
(* The pizza order allocation engine: ReportService.generateReport.        *)
(* The persisted votes and pizza options of one event are fetched, every   *)
(* voter starts on the first choice, the waterfall loop moves voters off   *)
(* options with too little demand, and the report is assembled from the    *)
(* final allocation.                                                       *)
(* Next to it: the validation schema and the handler of a vote submission, *)
(* the deletion of a pizza option, and a second generateReport call, which *)
(* write and read the same stored data while a report is generated.        *)
(***************************************************************************)
EXTENDS Integers, Sequences, FiniteSets, TLC

(***************************************************************************)
(* Program constants                                                       *)
(***************************************************************************)
SLICES_PER_PIZZA == 8
MIN_SLICES_TO_ROUND_UP == 4
maxIterations == 10
\* a vote ranks at most three options (priorities 1, 2, 3)
MaxChoices == 3
\* voteSchema: sliceCount: z.number().int().min(1).max(20)
MinSliceCount == 1
MaxSliceCount == 20

\* allocatedTo: string | null
NULL == "null"
\* the sentinel of the voter breakdown
NOT_ALLOCATED == "Not allocated"

(***************************************************************************)
(* Bounds of the model                                                     *)
(***************************************************************************)
\* at most this many votes are stored for the event
MaxVoters == 2
\* sliceCount of a stored vote ranges over 1..MaxSlice
MaxSlice == 6
\* a submitted vote has at most this many choices
MaxSubmittedChoices == 4

(***************************************************************************)
(* Stored data the engine reads                                            *)
(***************************************************************************)
\* ids of the pizza options of the event, and an option of another event
CatalogIds == {"A", "B", "C"}
ForeignId == "X"

\* PizzaOption.name (the pizzaOption relation of a choice, and the catalog)
OptionName(id) ==
  CASE id = "A" -> "Margherita"
    [] id = "B" -> "Pepperoni"
    [] id = "C" -> "Veggie"
    [] id = "D" -> "Funghi"
    [] OTHER -> "Hawaiian"

\* User.name of the voter with the given userId
UserName(userId) ==
  CASE userId = 1 -> "Ann"
    [] userId = 2 -> "Bob"
    [] userId = 3 -> "Cyd"
    [] OTHER -> "Dee"

\* the rows prisma.pizzaOption.findMany returns, in the order it returns them
Catalog == << [id |-> "C", name |-> OptionName("C")],
              [id |-> "A", name |-> OptionName("A")],
              [id |-> "B", name |-> OptionName("B")] >>

Choice(id, p) == [pizzaOptionId |-> id, priority |-> p]

Reverse(s) == [k \in 1..Len(s) |-> s[Len(s) + 1 - k]]

\* a ranked list: the given options with priorities 1..n, stored in priority
\* order
RankedList(ids) == [k \in 1..Len(ids) |-> Choice(ids[k], k)]

\* ranked lists of the input contract: one, two and three distinct catalog
\* options; lists that share a first, a second or a third choice, and lists
\* that share none
RankedLists ==
  { RankedList(<< "A" >>),
    RankedList(<< "A", "B" >>),
    RankedList(<< "C", "B" >>),
    RankedList(<< "A", "B", "C" >>),
    RankedList(<< "B", "A", "C" >>) }

\* a list of the input contract whose rows come back last choice first
UnsortedLists == { Reverse(RankedList(<< "A", "B", "C" >>)) }

\* malformed lists: no choice, the same option twice, the same priority
\* twice, an option that is not in the catalog of the event
MalformedLists ==
  { << >>,
    << Choice("A", 1), Choice("A", 2) >>,
    << Choice("A", 1), Choice("B", 1) >>,
    << Choice(ForeignId, 1), Choice("A", 2) >>,
    << Choice("A", 1), Choice(ForeignId, 2) >> }

ChoiceLists == RankedLists \cup UnsortedLists \cup MalformedLists

\* what a voter submits: a sliceCount and the list of choices
Ballots == [sliceCount : 1..MaxSlice, choices : ChoiceLists]

\* the Vote row of the voter with the given userId
VoteRow(userId, ballot) ==
  [userId |-> userId, sliceCount |-> ballot.sliceCount, choices |-> ballot.choices]

(***************************************************************************)
(* POST /:eventId/votes: the request body and voteSchema                   *)
(***************************************************************************)
\* A JSON number of a request body is held as twice its value, so that 2.5
\* is the integer 5 and z.number().int() is a test for an even number.
JsonNumber(n) == n + n
IsInt(x) == x % 2 = 0
NumberValue(x) == x \div 2

\* sliceCount values of a request body: 0, 0.5, 1, 2.5, 4, 5, 20, 21
SubmittedSliceCounts == { 0, 1, 2, 5, 8, 10, 40, 42 }

\* pizzaOptionId values of a request body; the empty string is one of them
SubmittedIds == { "", "A", "B", "C" }

SubmittedChoices == [pizzaOptionId : SubmittedIds, priority : 1..MaxChoices]

\* z.number().int().min(1).max(20)
SliceCountAccepted(x) ==
  /\ IsInt(x)
  /\ x >= JsonNumber(MinSliceCount)
  /\ x <= JsonNumber(MaxSliceCount)

\* z.object({pizzaOptionId: z.string().min(1), priority: 1 | 2 | 3})
ChoiceAccepted(c) ==
  /\ c.pizzaOptionId # ""
  /\ c.priority \in {1, 2, 3}

\* z.array(...).length(3), one choice for each of the priorities 1, 2, 3,
\* and new Set(ids).size === ids.length
ChoicesAccepted(choices) ==
  LET priorities == { choices[k].priority : k \in 1..Len(choices) }
      ids        == { choices[k].pizzaOptionId : k \in 1..Len(choices) }
  IN /\ \A k \in 1..Len(choices) : ChoiceAccepted(choices[k])
     /\ Len(choices) = MaxChoices
     /\ 1 \in priorities /\ 2 \in priorities /\ 3 \in priorities
     /\ Cardinality(ids) = Len(choices)

\* voteSchema.parse(req.body) does not throw
VoteSchemaAccepts(b) ==
  SliceCountAccepted(b.sliceCount) /\ ChoicesAccepted(b.choices)

\* the authenticated user and the body of a request
Request(userId, sliceCount, choices) ==
  [userId |-> userId, body |-> [sliceCount |-> sliceCount, choices |-> choices]]

NoRequest == [userId |-> 0]

(***************************************************************************)
(* Two report computations next to vote submissions and the deletion of    *)
(* pizza options: the stored data at the start                             *)
(***************************************************************************)
\* the event has a fourth option that no stored vote ranks
WideCatalog == Catalog \o << [id |-> "D", name |-> OptionName("D")] >>

\* two stored votes; the first voter votes again, a third user votes for
\* the first time
StoredVotes ==
  << VoteRow(1, [sliceCount |-> 2, choices |-> RankedList(<< "A", "B", "C" >>)]),
     VoteRow(2, [sliceCount |-> 5, choices |-> RankedList(<< "B", "D", "C" >>)]) >>

Resubmissions ==
  { Request(1, JsonNumber(3), RankedList(<< "B", "C", "D" >>)),
    Request(3, JsonNumber(4), RankedList(<< "C", "B", "A" >>)) }

VARIABLES
  request,           \* req.user.userId and req.body of the vote submission
  submitPc,          \* position in the POST /:eventId/votes handler
  other,             \* the locals of a second generateReport call
  dbVotes,           \* Vote rows with their choices, as stored
  dbOptions,         \* PizzaOption rows of the event, as stored
  pc,                \* position in generateReport
  votes,             \* const votes (the fetched objects)
  pizzaOptions,      \* const pizzaOptions
  voterAllocations,  \* const voterAllocations
  changed,           \* let changed
  iterations,        \* let iterations
  report             \* the returned PizzaOrderRecommendation

vars == << request, submitPc, other, dbVotes, dbOptions, pc, votes, pizzaOptions,
           voterAllocations, changed, iterations, report >>

NoReport == [status |-> "pending"]

\* the locals of a generateReport call that has not fetched anything
NotStarted ==
  [pc |-> "fetchVotes", votes |-> << >>, pizzaOptions |-> << >>,
   voterAllocations |-> << >>, changed |-> TRUE, iterations |-> 0,
   report |-> NoReport]

\* no second generateReport call
NoOther == [pc |-> "none"]

(***************************************************************************)
(* Helpers of the language runtime                                         *)
(***************************************************************************)
\* Array.prototype.find, given the indices of the elements that satisfy the
\* callback: the first of them, 0 if there is none
FindIndex(hits) ==
  IF hits = {} THEN 0 ELSE CHOOSE k \in hits : \A j \in hits : k <= j

\* Array.prototype.sort((a, b) => key(a) - key(b)) on elements tagged with
\* their key: an element goes after every element whose key is not greater,
\* so elements with equal keys keep their order (the sort is stable)
RECURSIVE InsertByKey(_, _)
InsertByKey(s, x) ==
  IF s = << >> THEN << x >>
  ELSE IF x.key < Head(s).key THEN << x >> \o s
  ELSE << Head(s) >> \o InsertByKey(Tail(s), x)

RECURSIVE SortByKey(_)
SortByKey(s) ==
  IF s = << >> THEN << >>
  ELSE InsertByKey(SortByKey(SubSeq(s, 1, Len(s) - 1)), s[Len(s)])

\* votes.reduce((sum, v) => sum + v.sliceCount, 0)
RECURSIVE SumSliceCount(_)
SumSliceCount(s) ==
  IF s = << >> THEN 0 ELSE s[1].sliceCount + SumSliceCount(Tail(s))

(***************************************************************************)
(* generateReport: voter allocations                                       *)
(***************************************************************************)
\* the choices left in the order the rows were fetched
SortChoicesAsStored(choices) == choices

\* vote.choices.sort((a, b) => a.priority - b.priority): the array sorted by
\* priority; the sort is done in place, on the fetched vote's own array
SortChoices(choices) ==
  LET tagged == [k \in 1..Len(choices) |->
                   [key |-> choices[k].priority, val |-> choices[k]]]
      sorted == SortByKey(tagged)
  IN [k \in 1..Len(choices) |-> sorted[k].val]

\* .map((c) => ({pizzaOptionId, pizzaName: c.pizzaOption.name, priority}))
AllocationChoices(sortedChoices) ==
  [k \in 1..Len(sortedChoices) |->
     [pizzaOptionId |-> sortedChoices[k].pizzaOptionId,
      pizzaName     |-> OptionName(sortedChoices[k].pizzaOptionId),
      priority      |-> sortedChoices[k].priority]]

\* the first choice taken by its display name instead of its id
FirstChoiceByName(sortedChoices) ==
  IF Len(sortedChoices) = 0 THEN NULL ELSE sortedChoices[1].pizzaName

\* sortedChoices[0]?.pizzaOptionId || null
FirstChoice(sortedChoices) ==
  IF Len(sortedChoices) = 0 THEN NULL ELSE sortedChoices[1].pizzaOptionId

\* the VoterAllocation built from one fetched vote
NewAllocation(vote) ==
  LET sortedChoices == AllocationChoices(SortChoices(vote.choices))
  IN [oderId      |-> vote.userId,
      userName    |-> UserName(vote.userId),
      sliceCount  |-> vote.sliceCount,
      choices     |-> sortedChoices,
      allocatedTo |-> FirstChoice(sortedChoices)]

(***************************************************************************)
(* generateReport: one pass of the waterfall loop                          *)
(***************************************************************************)
\* the sum with a voter's slices counted toward the voter's first choice,
\* wherever the voter is allocated
RECURSIVE SlicesOfFirstChoice(_, _)
SlicesOfFirstChoice(allocs, id) ==
  IF allocs = << >> THEN 0
  ELSE (IF Len(allocs[1].choices) > 0 /\ allocs[1].choices[1].pizzaOptionId = id
        THEN allocs[1].sliceCount ELSE 0)
       + SlicesOfFirstChoice(Tail(allocs), id)

\* sum of sliceCount over the voters allocated to the option, accumulated in
\* the order of the voterAllocations array
RECURSIVE SlicesAllocatedTo(_, _)
SlicesAllocatedTo(allocs, id) ==
  IF allocs = << >> THEN 0
  ELSE (IF allocs[1].allocatedTo = id THEN allocs[1].sliceCount ELSE 0)
       + SlicesAllocatedTo(Tail(allocs), id)

OptionIds(options) == { options[k].id : k \in 1..Len(options) }

\* the keys of demandMap: every fetched option, and every option a voter is
\* allocated to (demandMap.set adds the key when it is missing)
DemandKeys(options, allocs) ==
  OptionIds(options)
    \cup { allocs[i].allocatedTo : i \in { j \in 1..Len(allocs) : allocs[j].allocatedTo # NULL } }

\* demandMap counting the voters allocated to an option, not their slices
DemandMapByVoterCount(options, allocs) ==
  [id \in DemandKeys(options, allocs) |->
     Cardinality({ i \in 1..Len(allocs) : allocs[i].allocatedTo = id })]

\* demandMap at the start of a pass
DemandMap(options, allocs) ==
  [id \in DemandKeys(options, allocs) |-> SlicesAllocatedTo(allocs, id)]

\* unviableOptions with the lower comparison off by one: slices > 1
UnviableOptionsAboveOne(demandMap) ==
  { id \in DOMAIN demandMap :
      demandMap[id] > 1 /\ demandMap[id] < MIN_SLICES_TO_ROUND_UP }

\* unviableOptions with the size of a pizza as the threshold: slices < 8
UnviableOptionsBelowPizza(demandMap) ==
  { id \in DOMAIN demandMap :
      demandMap[id] > 0 /\ demandMap[id] < SLICES_PER_PIZZA }

\* unviableOptions with the upper comparison off by one: slices <= 4
UnviableOptionsUpToThreshold(demandMap) ==
  { id \in DOMAIN demandMap :
      demandMap[id] > 0 /\ demandMap[id] <= MIN_SLICES_TO_ROUND_UP }

\* unviableOptions: slices > 0 && slices < MIN_SLICES_TO_ROUND_UP
UnviableOptions(demandMap) ==
  { id \in DOMAIN demandMap :
      demandMap[id] > 0 /\ demandMap[id] < MIN_SLICES_TO_ROUND_UP }

\* the move of one voter with the next choice taken as the first choice of
\* another priority (c.priority !== currentChoice.priority)
MoveVoterToOtherPriority(voter, unviableOptions) ==
  IF voter.allocatedTo # NULL /\ voter.allocatedTo \in unviableOptions
  THEN LET cur == FindIndex({ k \in 1..Len(voter.choices) :
                                  voter.choices[k].pizzaOptionId = voter.allocatedTo })
       IN IF cur = 0
          THEN [allocatedTo |-> voter.allocatedTo, moved |-> FALSE]
          ELSE LET nxt == FindIndex({ k \in 1..Len(voter.choices) :
                                          voter.choices[k].priority # voter.choices[cur].priority })
               IN IF nxt # 0
                  THEN [allocatedTo |-> voter.choices[nxt].pizzaOptionId, moved |-> TRUE]
                  ELSE [allocatedTo |-> NULL, moved |-> TRUE]
  ELSE [allocatedTo |-> voter.allocatedTo, moved |-> FALSE]

\* the move of one voter with an unallocated voter put back on the first
\* choice when that choice is not unviable
MoveVoterRetriesFirst(voter, unviableOptions) ==
  IF voter.allocatedTo # NULL /\ voter.allocatedTo \in unviableOptions
  THEN LET cur == FindIndex({ k \in 1..Len(voter.choices) :
                                  voter.choices[k].pizzaOptionId = voter.allocatedTo })
       IN IF cur = 0
          THEN [allocatedTo |-> voter.allocatedTo, moved |-> FALSE]
          ELSE LET nxt == FindIndex({ k \in 1..Len(voter.choices) :
                                          voter.choices[k].priority > voter.choices[cur].priority })
               IN IF nxt # 0
                  THEN [allocatedTo |-> voter.choices[nxt].pizzaOptionId, moved |-> TRUE]
                  ELSE [allocatedTo |-> NULL, moved |-> TRUE]
  ELSE IF /\ voter.allocatedTo = NULL
          /\ Len(voter.choices) > 0
          /\ voter.choices[1].pizzaOptionId \notin unviableOptions
       THEN [allocatedTo |-> voter.choices[1].pizzaOptionId, moved |-> TRUE]
       ELSE [allocatedTo |-> voter.allocatedTo, moved |-> FALSE]

\* the move of one voter with a voter who has no later choice sent back to
\* the first choice
MoveVoterWrapsAround(voter, unviableOptions) ==
  IF voter.allocatedTo # NULL /\ voter.allocatedTo \in unviableOptions
  THEN LET cur == FindIndex({ k \in 1..Len(voter.choices) :
                                  voter.choices[k].pizzaOptionId = voter.allocatedTo })
       IN IF cur = 0
          THEN [allocatedTo |-> voter.allocatedTo, moved |-> FALSE]
          ELSE LET nxt == FindIndex({ k \in 1..Len(voter.choices) :
                                          voter.choices[k].priority > voter.choices[cur].priority })
               IN IF nxt # 0
                  THEN [allocatedTo |-> voter.choices[nxt].pizzaOptionId, moved |-> TRUE]
                  ELSE [allocatedTo |-> voter.choices[1].pizzaOptionId, moved |-> TRUE]
  ELSE [allocatedTo |-> voter.allocatedTo, moved |-> FALSE]

\* the body of the second forEach for one voter: the voter's allocatedTo
\* after the pass, and whether the pass set changed for this voter
MoveVoter(voter, unviableOptions) ==
  IF voter.allocatedTo # NULL /\ voter.allocatedTo \in unviableOptions
  THEN LET cur == FindIndex({ k \in 1..Len(voter.choices) :
                                  voter.choices[k].pizzaOptionId = voter.allocatedTo })
       IN IF cur = 0
          THEN [allocatedTo |-> voter.allocatedTo, moved |-> FALSE]
          ELSE LET nxt == FindIndex({ k \in 1..Len(voter.choices) :
                                          voter.choices[k].priority > voter.choices[cur].priority })
               IN IF nxt # 0
                  THEN [allocatedTo |-> voter.choices[nxt].pizzaOptionId, moved |-> TRUE]
                  ELSE [allocatedTo |-> NULL, moved |-> TRUE]
  ELSE [allocatedTo |-> voter.allocatedTo, moved |-> FALSE]

\* the loop condition of a single scan: one pass and no more
LoopContinuesSinglePass(chg, iters) == chg /\ iters < 1

\* the loop condition without the cap on the iterations
LoopContinuesUncapped(chg, iters) == chg

\* the loop condition
LoopContinues(chg, iters) == chg /\ iters < maxIterations

\* the body of the loop with the demand counted again before each voter is
\* looked at, so that a voter sees the moves of the voters listed earlier
RECURSIVE MoveInTurn(_, _, _, _)
MoveInTurn(options, allocs, i, chg) ==
  IF i > Len(allocs) THEN [allocs |-> allocs, changed |-> chg]
  ELSE LET unviableOptions == UnviableOptions(DemandMap(options, allocs))
           move == MoveVoter(allocs[i], unviableOptions)
       IN MoveInTurn(options,
                     [allocs EXCEPT ![i].allocatedTo = move.allocatedTo],
                     i + 1, chg \/ move.moved)

PassResultInTurn(options, allocs) == MoveInTurn(options, allocs, 1, FALSE)

\* the body of the loop with changed also set while a voter is unallocated
PassResultChangedWhileUnallocated(options, allocs) ==
  LET unviableOptions == UnviableOptions(DemandMap(options, allocs))
      moves == [i \in 1..Len(allocs) |-> MoveVoter(allocs[i], unviableOptions)]
  IN [allocs  |-> [i \in 1..Len(allocs) |->
                     [allocs[i] EXCEPT !.allocatedTo = moves[i].allocatedTo]],
      changed |-> (\E i \in 1..Len(allocs) :
                      moves[i].moved \/ moves[i].allocatedTo = NULL)]

\* the body of the while loop: the allocations after the pass, and changed
PassResult(options, allocs) ==
  LET unviableOptions == UnviableOptions(DemandMap(options, allocs))
      moves == [i \in 1..Len(allocs) |-> MoveVoter(allocs[i], unviableOptions)]
  IN [allocs  |-> [i \in 1..Len(allocs) |->
                     [allocs[i] EXCEPT !.allocatedTo = moves[i].allocatedTo]],
      changed |-> (\E i \in 1..Len(allocs) : moves[i].moved)]

\* the while loop run from the given state to its end: the final allocations
RECURSIVE RunLoop(_, _, _, _)
RunLoop(options, allocs, chg, iters) ==
  IF LoopContinues(chg, iters)
  THEN LET pass == PassResult(options, allocs)
       IN RunLoop(options, pass.allocs, pass.changed, iters + 1)
  ELSE allocs

(***************************************************************************)
(* generateReport: final demand, rounding, report                          *)
(***************************************************************************)
\* finalDemandMap as an array in insertion order: one PizzaDemand per fetched
\* option; a voter allocated to an id that is not a key is skipped
FinalDemand(options, allocs) ==
  [k \in 1..Len(options) |->
     [pizzaOptionId |-> options[k].id,
      name          |-> options[k].name,
      totalSlices   |-> SlicesAllocatedTo(allocs, options[k].id)]]

\* the demands sorted by a sort that puts equal demands in reverse order
DemandsTiesReversed(finalDemand) ==
  LET HasDemand(d) == d.totalSlices > 0
      kept   == Reverse(SelectSeq(finalDemand, HasDemand))
      tagged == [k \in 1..Len(kept) |-> [key |-> 0 - kept[k].totalSlices, val |-> kept[k]]]
      sorted == SortByKey(tagged)
  IN [k \in 1..Len(kept) |-> sorted[k].val]

\* the demands kept only above the round-up threshold
DemandsAboveThreshold(finalDemand) ==
  LET HasDemand(d) == d.totalSlices > MIN_SLICES_TO_ROUND_UP
      kept   == SelectSeq(finalDemand, HasDemand)
      tagged == [k \in 1..Len(kept) |-> [key |-> 0 - kept[k].totalSlices, val |-> kept[k]]]
      sorted == SortByKey(tagged)
  IN [k \in 1..Len(kept) |-> sorted[k].val]

\* .filter((d) => d.totalSlices > 0), then
\* demands.sort((a, b) => b.totalSlices - a.totalSlices)
Demands(finalDemand) ==
  LET HasDemand(d) == d.totalSlices > 0
      kept   == SelectSeq(finalDemand, HasDemand)
      tagged == [k \in 1..Len(kept) |-> [key |-> 0 - kept[k].totalSlices, val |-> kept[k]]]
      sorted == SortByKey(tagged)
  IN [k \in 1..Len(kept) |-> sorted[k].val]

\* the quantity rounded up for any remainder
QuantityCeiling(totalSlices) ==
  LET fullCount == totalSlices \div SLICES_PER_PIZZA
      remainder == totalSlices % SLICES_PER_PIZZA
      roundUp   == IF remainder > 0 THEN 1 ELSE 0
  IN fullCount + roundUp

\* the quantity with the round-up test written remainder > 4
QuantityStrictRoundUp(totalSlices) ==
  LET fullCount == totalSlices \div SLICES_PER_PIZZA
      remainder == totalSlices % SLICES_PER_PIZZA
      roundUp   == IF remainder > MIN_SLICES_TO_ROUND_UP THEN 1 ELSE 0
  IN fullCount + roundUp

\* fullCount + roundUp
Quantity(totalSlices) ==
  LET fullCount == totalSlices \div SLICES_PER_PIZZA
      remainder == totalSlices % SLICES_PER_PIZZA
      roundUp   == IF remainder >= MIN_SLICES_TO_ROUND_UP THEN 1 ELSE 0
  IN fullCount + roundUp

\* pizzaOrders with a line for every demand, a quantity of 0 included
RECURSIVE PizzaOrdersEveryDemand(_)
PizzaOrdersEveryDemand(demands) ==
  IF demands = << >> THEN << >>
  ELSE LET d == Head(demands)
           totalPizzas == Quantity(d.totalSlices)
       IN << [name |-> d.name, quantity |-> totalPizzas,
              slicesRequested |-> d.totalSlices] >>
          \o PizzaOrdersEveryDemand(Tail(demands))

\* pizzaOrders: a line for every demand whose quantity is positive
RECURSIVE PizzaOrders(_)
PizzaOrders(demands) ==
  IF demands = << >> THEN << >>
  ELSE LET d == Head(demands)
           totalPizzas == Quantity(d.totalSlices)
       IN (IF totalPizzas > 0
           THEN << [name |-> d.name, quantity |-> totalPizzas,
                    slicesRequested |-> d.totalSlices] >>
           ELSE << >>)
          \o PizzaOrders(Tail(demands))

\* `${name}: ${remainder} slices dropped (below 4-slice minimum for rounding)`
RemainderDropped(name, remainder) ==
  [kind |-> "remainder", name |-> name, slices |-> remainder]

\* `${userName}'s ${sliceCount} slices couldn't be allocated (no viable options)`
VoterDropped(userName, sliceCount) ==
  [kind |-> "unallocated", name |-> userName, slices |-> sliceCount]

\* the dropped remainders with the test written remainder <= 4
RECURSIVE DroppedRemaindersUpToFour(_)
DroppedRemaindersUpToFour(demands) ==
  IF demands = << >> THEN << >>
  ELSE LET d == Head(demands)
           remainder == d.totalSlices % SLICES_PER_PIZZA
       IN (IF remainder > 0 /\ remainder <= MIN_SLICES_TO_ROUND_UP
           THEN << RemainderDropped(d.name, remainder) >>
           ELSE << >>)
          \o DroppedRemaindersUpToFour(Tail(demands))

\* the entries the rounding loop pushes on droppedOptions
RECURSIVE DroppedRemainders(_)
DroppedRemainders(demands) ==
  IF demands = << >> THEN << >>
  ELSE LET d == Head(demands)
           remainder == d.totalSlices % SLICES_PER_PIZZA
       IN (IF remainder > 0 /\ remainder < MIN_SLICES_TO_ROUND_UP
           THEN << RemainderDropped(d.name, remainder) >>
           ELSE << >>)
          \o DroppedRemainders(Tail(demands))

\* the entries pushed for voterAllocations.filter((v) => !v.allocatedTo)
DroppedVoters(allocs) ==
  LET Unallocated(v) == v.allocatedTo = NULL
      unallocatedVoters == SelectSeq(allocs, Unallocated)
  IN [k \in 1..Len(unallocatedVoters) |->
        VoterDropped(unallocatedVoters[k].userName, unallocatedVoters[k].sliceCount)]

DroppedOptions(demands, allocs) ==
  DroppedRemainders(demands) \o DroppedVoters(allocs)

\* pizzaMap.get(voter.allocatedTo)?.name, or the sentinel
AllocatedName(options, allocatedTo) ==
  IF allocatedTo # NULL /\ allocatedTo \in OptionIds(options)
  THEN LET k == CHOOSE j \in 1..Len(options) :
                  /\ options[j].id = allocatedTo
                  /\ \A m \in (j + 1)..Len(options) : options[m].id # allocatedTo
       IN options[k].name
  ELSE NOT_ALLOCATED

\* the breakdown showing every voter on the first choice, where the voter
\* started, not where the voter ended
VoterBreakdownOfFirstChoices(options, allocs) ==
  [i \in 1..Len(allocs) |->
     [userId      |-> allocs[i].oderId,
      userName    |-> allocs[i].userName,
      sliceCount  |-> allocs[i].sliceCount,
      choices     |-> [k \in 1..Len(allocs[i].choices) |->
                         [pizzaName |-> allocs[i].choices[k].pizzaName,
                          priority  |-> allocs[i].choices[k].priority]],
      allocatedTo |-> AllocatedName(options, FirstChoice(allocs[i].choices))]]

VoterBreakdown(options, allocs) ==
  [i \in 1..Len(allocs) |->
     [userId      |-> allocs[i].oderId,
      userName    |-> allocs[i].userName,
      sliceCount  |-> allocs[i].sliceCount,
      choices     |-> [k \in 1..Len(allocs[i].choices) |->
                         [pizzaName |-> allocs[i].choices[k].pizzaName,
                          priority  |-> allocs[i].choices[k].priority]],
      allocatedTo |-> AllocatedName(options, allocs[i].allocatedTo)]]

RECURSIVE SumQuantity(_)
SumQuantity(orders) ==
  IF orders = << >> THEN 0 ELSE orders[1].quantity + SumQuantity(Tail(orders))

\* the summary computed from the voters that are still allocated
SummaryOfAllocated(fetched, allocs) ==
  LET Allocated(v) == v.allocatedTo # NULL
  IN [totalVoters |-> Len(fetched),
      totalSlicesRequested |-> SumSliceCount(SelectSeq(allocs, Allocated))]

\* summary: votes.length and the sum of sliceCount over the fetched votes;
\* the allocations are in scope and are not used
Summary(fetched, allocs) ==
  [totalVoters |-> Len(fetched),
   totalSlicesRequested |-> SumSliceCount(fetched)]

\* the returned object
BuildReport(fetched, options, allocs) ==
  LET demands     == Demands(FinalDemand(options, allocs))
      pizzaOrders == PizzaOrders(demands)
      totalPizzas == SumQuantity(pizzaOrders)
  IN [pizzaOrders    |-> pizzaOrders,
      totalPizzas    |-> totalPizzas,
      totalSlices    |-> totalPizzas * SLICES_PER_PIZZA,
      droppedOptions |-> DroppedOptions(demands, allocs),
      voterBreakdown |-> VoterBreakdown(options, allocs),
      summary        |-> Summary(fetched, allocs)]

\* generateReport as a function of what the two findMany calls returned
GenerateReport(fetched, options) ==
  LET allocs == [i \in 1..Len(fetched) |-> NewAllocation(fetched[i])]
  IN BuildReport(fetched, options, RunLoop(options, allocs, TRUE, 0))

(***************************************************************************)
(* The state machine                                                       *)
(***************************************************************************)
Init ==
  /\ \E n \in 0..MaxVoters :
        \E ballots \in [1..n -> Ballots] :
           dbVotes = [i \in 1..n |-> VoteRow(i, ballots[i])]
  /\ dbOptions = Catalog
  /\ request = NoRequest
  /\ submitPc = "idle"
  /\ other = NoOther
  /\ pc = "fetchVotes"
  /\ votes = << >>
  /\ pizzaOptions = << >>
  /\ voterAllocations = << >>
  /\ changed = TRUE
  /\ iterations = 0
  /\ report = NoReport

\* prisma.vote.findMany({where: {eventId}, include: {user, choices}})
FetchVotes ==
  /\ pc = "fetchVotes"
  /\ votes' = dbVotes
  /\ pc' = "fetchOptions"
  /\ UNCHANGED << request, submitPc, other, dbVotes, dbOptions, pizzaOptions, voterAllocations, changed,
                  iterations, report >>

\* prisma.pizzaOption.findMany({where: {eventId}})
FetchOptions ==
  /\ pc = "fetchOptions"
  /\ pizzaOptions' = dbOptions
  /\ pc' = "allocate"
  /\ UNCHANGED << request, submitPc, other, dbVotes, dbOptions, votes, voterAllocations, changed,
                  iterations, report >>

\* votes.map(...): every voter starts on the first choice; the in-place sort
\* leaves each fetched vote's choices array sorted
InitAllocations ==
  /\ pc = "allocate"
  /\ voterAllocations' = [i \in 1..Len(votes) |-> NewAllocation(votes[i])]
  /\ votes' = [i \in 1..Len(votes) |->
                 [votes[i] EXCEPT !.choices = SortChoices(votes[i].choices)]]
  /\ changed' = TRUE
  /\ iterations' = 0
  /\ pc' = "loop"
  /\ UNCHANGED << request, submitPc, other, dbVotes, dbOptions, pizzaOptions, report >>

\* one iteration of while (changed && iterations < maxIterations)
WaterfallPass ==
  /\ pc = "loop"
  /\ LoopContinues(changed, iterations)
  /\ LET pass == PassResult(pizzaOptions, voterAllocations)
     IN /\ voterAllocations' = pass.allocs
        /\ changed' = pass.changed
  /\ iterations' = iterations + 1
  /\ UNCHANGED << request, submitPc, other, dbVotes, dbOptions, pc, votes, pizzaOptions, report >>

\* the loop has ended: final demand, rounding, dropped list, breakdown, totals
Assemble ==
  /\ pc = "loop"
  /\ ~LoopContinues(changed, iterations)
  /\ report' = BuildReport(votes, pizzaOptions, voterAllocations)
  /\ pc' = "done"
  /\ UNCHANGED << request, submitPc, other, dbVotes, dbOptions, votes, pizzaOptions, voterAllocations,
                  changed, iterations >>

Next ==
  \/ FetchVotes
  \/ FetchOptions
  \/ InitAllocations
  \/ WaterfallPass
  \/ Assemble

Spec == Init /\ [][Next]_vars

(***************************************************************************)
(* POST /:eventId/votes: the handler, one action for each statement that   *)
(* is awaited. The event exists and its deadline has not passed.           *)
(***************************************************************************)
engineVars == << pc, votes, pizzaOptions, voterAllocations, changed, iterations, report >>

\* const data = voteSchema.parse(req.body); a ZodError ends the request
ParseVote ==
  /\ submitPc = "parse"
  /\ submitPc' = IF VoteSchemaAccepts(request.body) THEN "checkPizzas" ELSE "rejected"
  /\ UNCHANGED << request, other, dbVotes, dbOptions, engineVars >>

\* prisma.pizzaOption.findMany({where: {id: {in: pizzaIds}, eventId}}) and
\* pizzas.length !== pizzaIds.length
CheckPizzas ==
  /\ submitPc = "checkPizzas"
  /\ LET pizzaIds == [k \in 1..Len(request.body.choices) |->
                        request.body.choices[k].pizzaOptionId]
         pizzas   == { k \in 1..Len(dbOptions) :
                         \E j \in 1..Len(pizzaIds) : dbOptions[k].id = pizzaIds[j] }
     IN submitPc' = IF Cardinality(pizzas) # Len(pizzaIds) THEN "rejected" ELSE "findVote"
  /\ UNCHANGED << request, other, dbVotes, dbOptions, engineVars >>

\* prisma.vote.findUnique({where: {userId_eventId}})
FindVote ==
  /\ submitPc = "findVote"
  /\ submitPc' = IF \E i \in 1..Len(dbVotes) : dbVotes[i].userId = request.userId
                 THEN "deleteChoices" ELSE "create"
  /\ UNCHANGED << request, other, dbVotes, dbOptions, engineVars >>

\* prisma.voteChoice.deleteMany({where: {voteId: existingVote.id}})
DeleteChoices ==
  /\ submitPc = "deleteChoices"
  /\ dbVotes' = [i \in 1..Len(dbVotes) |->
                   IF dbVotes[i].userId = request.userId
                   THEN [dbVotes[i] EXCEPT !.choices = << >>]
                   ELSE dbVotes[i]]
  /\ submitPc' = "update"
  /\ UNCHANGED << request, other, dbOptions, engineVars >>

\* every pizzaOptionId of the body is the id of a stored option: the
\* foreign key of the choice rows that a write creates
OptionsStored(body) ==
  \A k \in 1..Len(body.choices) : body.choices[k].pizzaOptionId \in OptionIds(dbOptions)

\* prisma.vote.update({data: {sliceCount, choices: {create: ...}}}); the
\* statement fails when an option of the body is no longer stored
UpdateVote ==
  /\ submitPc = "update"
  /\ IF OptionsStored(request.body)
     THEN /\ dbVotes' = [i \in 1..Len(dbVotes) |->
                           IF dbVotes[i].userId = request.userId
                           THEN VoteRow(request.userId,
                                        [sliceCount |-> NumberValue(request.body.sliceCount),
                                         choices    |-> request.body.choices])
                           ELSE dbVotes[i]]
          /\ submitPc' = "done"
     ELSE /\ dbVotes' = dbVotes
          /\ submitPc' = "failed"
  /\ UNCHANGED << request, other, dbOptions, engineVars >>

\* prisma.vote.create({data: {userId, eventId, sliceCount, choices: {create: ...}}})
CreateVote ==
  /\ submitPc = "create"
  /\ IF OptionsStored(request.body)
     THEN /\ dbVotes' = Append(dbVotes,
                               VoteRow(request.userId,
                                       [sliceCount |-> NumberValue(request.body.sliceCount),
                                        choices    |-> request.body.choices]))
          /\ submitPc' = "done"
     ELSE /\ dbVotes' = dbVotes
          /\ submitPc' = "failed"
  /\ UNCHANGED << request, other, dbOptions, engineVars >>

(***************************************************************************)
(* DELETE /:eventId/pizzas/:id: an option that no stored choice references *)
(* is deleted (the delete of a referenced option is left out: what it does *)
(* is decided by the database schema).                                     *)
(***************************************************************************)
DeletePizzaOption ==
  /\ \E id \in OptionIds(dbOptions) :
        /\ \A i \in 1..Len(dbVotes) : \A k \in 1..Len(dbVotes[i].choices) :
              dbVotes[i].choices[k].pizzaOptionId # id
        /\ LET Kept(o) == o.id # id
           IN dbOptions' = SelectSeq(dbOptions, Kept)
  /\ UNCHANGED << request, submitPc, other, dbVotes, engineVars >>

(***************************************************************************)
(* A second generateReport call, running next to the first                 *)
(***************************************************************************)
\* the next statement of a generateReport call, on the call's own locals
RunStep(st, storedVotes, storedOptions) ==
  CASE st.pc = "fetchVotes" ->
         [st EXCEPT !.votes = storedVotes, !.pc = "fetchOptions"]
    [] st.pc = "fetchOptions" ->
         [st EXCEPT !.pizzaOptions = storedOptions, !.pc = "allocate"]
    [] st.pc = "allocate" ->
         [st EXCEPT !.voterAllocations = [i \in 1..Len(st.votes) |-> NewAllocation(st.votes[i])],
                    !.votes = [i \in 1..Len(st.votes) |->
                                 [st.votes[i] EXCEPT !.choices = SortChoices(st.votes[i].choices)]],
                    !.changed = TRUE,
                    !.iterations = 0,
                    !.pc = "loop"]
    [] st.pc = "loop" /\ LoopContinues(st.changed, st.iterations) ->
         LET pass == PassResult(st.pizzaOptions, st.voterAllocations)
         IN [st EXCEPT !.voterAllocations = pass.allocs,
                       !.changed = pass.changed,
                       !.iterations = st.iterations + 1]
    [] st.pc = "loop" /\ ~LoopContinues(st.changed, st.iterations) ->
         [st EXCEPT !.report = BuildReport(st.votes, st.pizzaOptions, st.voterAllocations),
                    !.pc = "done"]
    [] OTHER -> st

\* a step of the second call with voterAllocations kept in one place for
\* all calls: the step works on the allocations the first call built
OtherRunOnSharedAllocations ==
  /\ other.pc \in {"fetchVotes", "fetchOptions", "allocate", "loop"}
  /\ other' = RunStep(IF other.pc = "loop" /\ pc \in {"loop", "done"}
                      THEN [other EXCEPT !.voterAllocations = voterAllocations]
                      ELSE other,
                      dbVotes, dbOptions)
  /\ UNCHANGED << request, submitPc, dbVotes, dbOptions, engineVars >>

\* a step of the second call
OtherRun ==
  /\ other.pc \in {"fetchVotes", "fetchOptions", "allocate", "loop"}
  /\ other' = RunStep(other, dbVotes, dbOptions)
  /\ UNCHANGED << request, submitPc, dbVotes, dbOptions, engineVars >>

ConcInit ==
  /\ request \in Resubmissions
  /\ submitPc = "parse"
  /\ other = NotStarted
  /\ dbVotes = StoredVotes
  /\ dbOptions = WideCatalog
  /\ pc = "fetchVotes"
  /\ votes = << >>
  /\ pizzaOptions = << >>
  /\ voterAllocations = << >>
  /\ changed = TRUE
  /\ iterations = 0
  /\ report = NoReport

ConcNext ==
  \/ FetchVotes
  \/ FetchOptions
  \/ InitAllocations
  \/ WaterfallPass
  \/ Assemble
  \/ OtherRun
  \/ ParseVote
  \/ CheckPizzas
  \/ FindVote
  \/ DeleteChoices
  \/ UpdateVote
  \/ CreateVote
  \/ DeletePizzaOption

ConcSpec == ConcInit /\ [][ConcNext]_vars

(***************************************************************************)
(* voteSchema alone: a request body is parsed                              *)
(***************************************************************************)
SchemaInit ==
  /\ \E n \in 0..MaxSubmittedChoices :
        \E choices \in [1..n -> SubmittedChoices] :
           \E sliceCount \in SubmittedSliceCounts :
              request = Request(1, sliceCount, choices)
  /\ submitPc = "parse"
  /\ other = NoOther
  /\ dbVotes = << >>
  /\ dbOptions = Catalog
  /\ pc = "none"
  /\ votes = << >>
  /\ pizzaOptions = << >>
  /\ voterAllocations = << >>
  /\ changed = TRUE
  /\ iterations = 0
  /\ report = NoReport

SchemaNext == ParseVote

SchemaSpec == SchemaInit /\ [][SchemaNext]_vars

(***************************************************************************)
(* Vocabulary of the properties                                            *)
(***************************************************************************)
\* the input contract on one stored vote: a positive sliceCount and 1 to 3
\* distinct options of the event's catalog with priorities 1..n
ContractVote(v) ==
  LET n == Len(v.choices)
  IN /\ v.sliceCount >= 1
     /\ n \in 1..MaxChoices
     /\ { v.choices[k].priority : k \in 1..n } = 1..n
     /\ \A a, b \in 1..n : a # b => v.choices[a].pizzaOptionId # v.choices[b].pizzaOptionId
     /\ \A k \in 1..n : v.choices[k].pizzaOptionId \in OptionIds(dbOptions)

InputContract == \A i \in 1..Len(dbVotes) : ContractVote(dbVotes[i])

Voters == 1..Len(voterAllocations)

\* the demand of an option under the current allocation
DemandOf(id) == SlicesAllocatedTo(voterAllocations, id)

\* the while loop has been left
LoopEnded == pc = "done" \/ (pc = "loop" /\ ~LoopContinues(changed, iterations))

\* the priority of the choice a voter is allocated to
AllocatedPriority(voter) ==
  LET on == { k \in 1..Len(voter.choices) :
                voter.choices[k].pizzaOptionId = voter.allocatedTo }
  IN voter.choices[CHOOSE k \in on : \A j \in on : k <= j].priority

(***************************************************************************)
(* C1: for any input, malformed votes included, the waterfall loop runs at *)
(* most 10 passes, and once 10 passes have run the loop is left and the    *)
(* report is assembled.                                                    *)
(***************************************************************************)
C1_LoopWithinCap ==
  /\ iterations <= maxIterations
  /\ (pc = "loop" /\ iterations >= maxIterations) => ~LoopContinues(changed, iterations)
  /\ pc = "done" => (report # NoReport /\ iterations <= maxIterations)

\* a malformed vote keeps moving between its duplicate choices until the cap
C1_Witness == pc = "done" /\ iterations = maxIterations /\ changed /\ ~InputContract

(***************************************************************************)
(* C2: on input satisfying the input contract, when the loop ends every    *)
(* catalog option has demand 0 or at least 4 slices.                       *)
(***************************************************************************)
C2_NoThinDemand ==
  (LoopEnded /\ InputContract) =>
     \A id \in OptionIds(pizzaOptions) :
        DemandOf(id) = 0 \/ DemandOf(id) >= MIN_SLICES_TO_ROUND_UP

\* two voters were moved off thin options and met on a later choice
C2_Witness ==
  /\ pc = "done" /\ InputContract /\ Len(dbVotes) = 2
  /\ \A i \in Voters :
        /\ voterAllocations[i].allocatedTo # NULL
        /\ voterAllocations[i].allocatedTo # voterAllocations[i].choices[1].pizzaOptionId
        /\ voterAllocations[i].sliceCount < MIN_SLICES_TO_ROUND_UP

(***************************************************************************)
(* C3: on input satisfying the input contract, a pass that changes the     *)
(* option a voter is allocated to moves the voter to a choice of strictly  *)
(* greater priority number (or to unallocated), never to an earlier one.   *)
(***************************************************************************)
C3_PriorityNeverDecreases ==
  [][ (pc = "loop" /\ InputContract) =>
        \A i \in Voters :
           LET before == voterAllocations[i]
               after  == voterAllocations'[i]
           IN (after.allocatedTo # before.allocatedTo /\ after.allocatedTo # NULL) =>
                 /\ before.allocatedTo # NULL
                 /\ AllocatedPriority(after) > AllocatedPriority(before) ]_vars

\* a voter has been moved twice and sits on the third choice
C3_Witness ==
  /\ pc = "loop" /\ InputContract
  /\ \E i \in Voters :
        /\ Len(voterAllocations[i].choices) = 3
        /\ voterAllocations[i].allocatedTo = voterAllocations[i].choices[3].pizzaOptionId

(***************************************************************************)
(* C4: for every catalog option with final demand d > 0 the ordered        *)
(* quantity is floor(d / 8) + (1 if d mod 8 >= 4, else 0).                 *)
(***************************************************************************)
\* the quantity the report orders of the option with the given name
RECURSIVE OrderedQuantity(_, _)
OrderedQuantity(orders, name) ==
  IF orders = << >> THEN 0
  ELSE (IF orders[1].name = name THEN orders[1].quantity ELSE 0)
       + OrderedQuantity(Tail(orders), name)

C4_QuantityRule ==
  pc = "done" =>
     \A k \in 1..Len(pizzaOptions) :
        LET d == DemandOf(pizzaOptions[k].id)
        IN d > 0 =>
             OrderedQuantity(report.pizzaOrders, pizzaOptions[k].name)
               = (d \div 8) + (IF d % 8 >= 4 THEN 1 ELSE 0)

\* one option rounded up to two pizzas
C4_Witness ==
  /\ pc = "done"
  /\ \E k \in 1..Len(pizzaOptions) :
        /\ DemandOf(pizzaOptions[k].id) = 12
        /\ OrderedQuantity(report.pizzaOrders, pizzaOptions[k].name) = 2

(***************************************************************************)
(* C5: summary.totalSlicesRequested equals the sum of sliceCount over all  *)
(* stored votes, whatever the allocation outcome.                          *)
(***************************************************************************)
RECURSIVE SumOver(_, _)
SumOver(S, f) ==
  IF S = {} THEN 0
  ELSE LET x == CHOOSE y \in S : TRUE IN f[x] + SumOver(S \ {x}, f)

C5_TotalRequested ==
  pc = "done" =>
     report.summary.totalSlicesRequested =
        SumOver(DOMAIN dbVotes, [i \in DOMAIN dbVotes |-> dbVotes[i].sliceCount])

\* one voter ended unallocated, the other voter's option was ordered
C5_Witness ==
  /\ pc = "done" /\ Len(dbVotes) = 2
  /\ \E i \in Voters : voterAllocations[i].allocatedTo = NULL
  /\ Len(report.pizzaOrders) = 1
  /\ report.summary.totalSlicesRequested > report.pizzaOrders[1].slicesRequested

(***************************************************************************)
(* C7: when a vote has a choice whose option is not in the fetched         *)
(* catalog, no report is returned in which that vote's slices appear in no *)
(* order line and in no dropped explanation (the generation fails).        *)
(***************************************************************************)
HasForeignChoice(v) ==
  \E k \in 1..Len(v.choices) : v.choices[k].pizzaOptionId \notin OptionIds(pizzaOptions)

\* the voter's slices are part of the demand of an option of the report, or
\* the dropped list names the voter
SlicesReported(i) ==
  LET v == voterAllocations[i]
  IN \/ /\ v.allocatedTo \in OptionIds(pizzaOptions)
        /\ \E k \in 1..Len(pizzaOptions) :
              /\ pizzaOptions[k].id = v.allocatedTo
              /\ \/ \E n \in 1..Len(report.pizzaOrders) :
                       report.pizzaOrders[n].name = pizzaOptions[k].name
                 \/ \E n \in 1..Len(report.droppedOptions) :
                       /\ report.droppedOptions[n].kind = "remainder"
                       /\ report.droppedOptions[n].name = pizzaOptions[k].name
     \/ \E n \in 1..Len(report.droppedOptions) :
           report.droppedOptions[n] = VoterDropped(v.userName, v.sliceCount)

C7_ForeignChoiceNotAbsorbed ==
  pc = "done" =>
     \A i \in Voters : HasForeignChoice(dbVotes[i]) => SlicesReported(i)

(***************************************************************************)
(* C8: once a voter is unallocated the voter stays unallocated in every    *)
(* later pass, and the final report shows the voter as not allocated.      *)
(***************************************************************************)
C8_UnallocatedIsFinal ==
  /\ [][ pc = "loop" =>
           \A i \in Voters :
              voterAllocations[i].allocatedTo = NULL =>
                 voterAllocations'[i].allocatedTo = NULL ]_vars
  /\ [](pc = "done" =>
          \A i \in Voters :
             voterAllocations[i].allocatedTo = NULL =>
                /\ report.voterBreakdown[i].allocatedTo = NOT_ALLOCATED
                /\ \E n \in 1..Len(report.droppedOptions) :
                      report.droppedOptions[n] =
                         VoterDropped(voterAllocations[i].userName,
                                      voterAllocations[i].sliceCount))

\* a pass is about to run while a voter who ranked options is unallocated
C8_Witness ==
  /\ pc = "loop" /\ LoopContinues(changed, iterations) /\ InputContract
  /\ \E i \in Voters : voterAllocations[i].allocatedTo = NULL

(***************************************************************************)
(* C9: the dropped list has exactly one entry for each catalog option      *)
(* whose final demand leaves a remainder of 1 to 3 slices modulo 8, naming *)
(* the option and the remainder, exactly one entry for each unallocated    *)
(* voter, naming the voter and the sliceCount, and no other entry.         *)
(***************************************************************************)
RemainderOptions ==
  { k \in 1..Len(pizzaOptions) : DemandOf(pizzaOptions[k].id) % 8 \in 1..3 }

UnallocatedVoters == { i \in Voters : voterAllocations[i].allocatedTo = NULL }

EntriesEqualTo(e) ==
  { n \in 1..Len(report.droppedOptions) : report.droppedOptions[n] = e }

C9_DroppedExactly ==
  pc = "done" =>
     /\ Len(report.droppedOptions) = Cardinality(RemainderOptions) + Cardinality(UnallocatedVoters)
     /\ \A k \in RemainderOptions :
           Cardinality(EntriesEqualTo(
              RemainderDropped(pizzaOptions[k].name, DemandOf(pizzaOptions[k].id) % 8))) = 1
     /\ \A i \in UnallocatedVoters :
           Cardinality(EntriesEqualTo(
              VoterDropped(UserName(dbVotes[i].userId), dbVotes[i].sliceCount))) = 1

\* the dropped list holds an option's remainder and an unallocated voter
C9_Witness ==
  /\ pc = "done"
  /\ RemainderOptions # {} /\ UnallocatedVoters # {}
  /\ Len(report.droppedOptions) = 2

(***************************************************************************)
(* C10: generateReport leaves every fetched vote as it was fetched: the    *)
(* sliceCount and the list of choices, in the same order.                  *)
(***************************************************************************)
C10_VotesUntouched ==
  pc = "done" =>
     \A i \in 1..Len(dbVotes) :
        /\ votes[i].sliceCount = dbVotes[i].sliceCount
        /\ votes[i].choices = dbVotes[i].choices

(***************************************************************************)
(* C11: the order lines are sorted by slicesRequested, largest first, and  *)
(* lines with equal slicesRequested follow each other in the order of      *)
(* their options in the fetched catalog.                                   *)
(***************************************************************************)
\* the position in the fetched catalog of the option with the given name
CatalogIndex(name) ==
  FindIndex({ k \in 1..Len(pizzaOptions) : pizzaOptions[k].name = name })

\* the position in the fetched catalog of the option with the given id
CatalogIndexOfId(id) ==
  FindIndex({ k \in 1..Len(pizzaOptions) : pizzaOptions[k].id = id })

C11_OrdersSortedStable ==
  pc = "done" =>
     \A m, n \in 1..Len(report.pizzaOrders) :
        m < n =>
           /\ report.pizzaOrders[m].slicesRequested >= report.pizzaOrders[n].slicesRequested
           /\ report.pizzaOrders[m].slicesRequested = report.pizzaOrders[n].slicesRequested
                 => CatalogIndex(report.pizzaOrders[m].name)
                      < CatalogIndex(report.pizzaOrders[n].name)

\* two lines tie, and the catalog lists their options against the order of
\* the names
C11_Witness ==
  /\ pc = "done" /\ Len(report.pizzaOrders) = 2
  /\ report.pizzaOrders[1].slicesRequested = report.pizzaOrders[2].slicesRequested
  /\ report.pizzaOrders[1].name = OptionName("C")
  /\ report.pizzaOrders[2].name = OptionName("A")

(***************************************************************************)
(* C12: the order list has exactly one line for each catalog option whose  *)
(* quantity is at least 1, that line carries the quantity and the option's *)
(* final demand as slicesRequested, and an option whose quantity is 0 has  *)
(* no line.                                                                *)
(***************************************************************************)
\* the lines of the order list that name the option
LinesOf(name) ==
  { n \in 1..Len(report.pizzaOrders) : report.pizzaOrders[n].name = name }

\* the catalog options whose final demand rounds to at least one pizza
OrderedOptions ==
  { k \in 1..Len(pizzaOptions) : Quantity(DemandOf(pizzaOptions[k].id)) >= 1 }

C12_OneLinePerOrderedOption ==
  pc = "done" =>
     /\ Len(report.pizzaOrders) = Cardinality(OrderedOptions)
     /\ \A k \in 1..Len(pizzaOptions) :
           LET d == DemandOf(pizzaOptions[k].id)
               lines == LinesOf(pizzaOptions[k].name)
           IN IF k \in OrderedOptions
              THEN /\ Cardinality(lines) = 1
                   /\ \A n \in lines :
                         /\ report.pizzaOrders[n].slicesRequested = d
                         /\ report.pizzaOrders[n].quantity = Quantity(d)
              ELSE lines = {}

\* one option is ordered, another has demand that rounds to no pizza
C12_Witness ==
  /\ pc = "done"
  /\ Len(report.pizzaOrders) = 1
  /\ \E k \in 1..Len(pizzaOptions) :
        /\ DemandOf(pizzaOptions[k].id) \in 1..3
        /\ LinesOf(pizzaOptions[k].name) = {}

(***************************************************************************)
(* C18: before the first pass every voter whose vote has choices is        *)
(* allocated to the choice with the lowest priority number, whatever the   *)
(* order in which the choices were stored; a voter whose vote has no       *)
(* choice starts unallocated.                                              *)
(***************************************************************************)
C18_StartsOnFirstChoice ==
  (pc = "loop" /\ iterations = 0) =>
     \A i \in Voters :
        LET stored == votes[i].choices
        IN IF Len(stored) = 0
           THEN voterAllocations[i].allocatedTo = NULL
           ELSE \E k \in 1..Len(stored) :
                   /\ voterAllocations[i].allocatedTo = stored[k].pizzaOptionId
                   /\ \A j \in 1..Len(stored) : stored[k].priority <= stored[j].priority

\* a vote stored last choice first starts on its priority-1 choice, next to
\* a vote without choices
C18_Witness ==
  /\ pc = "loop" /\ iterations = 0 /\ Len(dbVotes) = 2
  /\ \E i \in Voters :
        /\ Len(dbVotes[i].choices) = 3
        /\ dbVotes[i].choices[1].priority = 3
        /\ dbVotes[i].choices[3].priority = 1
        /\ voterAllocations[i].allocatedTo = dbVotes[i].choices[3].pizzaOptionId
  /\ \E i \in Voters :
        Len(dbVotes[i].choices) = 0 /\ voterAllocations[i].allocatedTo = NULL

(***************************************************************************)
(* C19: a pass decides from the demand at its start which options are      *)
(* unviable (0 < demand < 4). A voter allocated at the start of the pass   *)
(* to an unviable option ends the pass on the choice with the smallest     *)
(* priority greater than the priority of the current choice, or            *)
(* unallocated when there is none, and this is another allocation          *)
(* whenever the voter's choices name distinct options; every other voter's *)
(* allocation is unchanged by the pass.                                    *)
(***************************************************************************)
\* the voter is allocated to an option whose demand is above 0 and below 4
OnUnviableOption(voter) ==
  /\ voter.allocatedTo # NULL
  /\ DemandOf(voter.allocatedTo) > 0
  /\ DemandOf(voter.allocatedTo) < 4

\* the option one step down the voter's list: the choice with the smallest
\* priority above the priority of the current choice, or no option
OneStepDown(voter) ==
  LET later == { k \in 1..Len(voter.choices) :
                   voter.choices[k].priority > AllocatedPriority(voter) }
  IN IF later = {} THEN NULL
     ELSE voter.choices[CHOOSE k \in later :
             \A j \in later :
                \/ voter.choices[k].priority < voter.choices[j].priority
                \/ (voter.choices[k].priority = voter.choices[j].priority /\ k <= j)
          ].pizzaOptionId

DistinctOptions(voter) ==
  \A a, b \in 1..Len(voter.choices) :
     a # b => voter.choices[a].pizzaOptionId # voter.choices[b].pizzaOptionId

C19_PassMovesOneStep ==
  [][ (pc = "loop" /\ iterations' = iterations + 1) =>
        \A i \in Voters :
           LET before == voterAllocations[i]
               after  == voterAllocations'[i]
           IN IF OnUnviableOption(before)
              THEN /\ after.allocatedTo = OneStepDown(before)
                   /\ DistinctOptions(before) => after.allocatedTo # before.allocatedTo
              ELSE after = before ]_vars

\* after the first pass one voter has stepped to the second choice and the
\* other voter is where the pass found them
C19_Witness ==
  /\ pc = "loop" /\ iterations = 1 /\ Len(voterAllocations) = 2
  /\ \E i, j \in Voters :
        /\ i # j
        /\ Len(voterAllocations[i].choices) >= 2
        /\ DistinctOptions(voterAllocations[i])
        /\ voterAllocations[i].allocatedTo = voterAllocations[i].choices[2].pizzaOptionId
        /\ Len(voterAllocations[j].choices) >= 1
        /\ voterAllocations[j].allocatedTo = voterAllocations[j].choices[1].pizzaOptionId
        /\ voterAllocations[j].sliceCount >= MIN_SLICES_TO_ROUND_UP

(***************************************************************************)
(* C17, as claimed: on input satisfying the input contract, whose lists    *)
(* have at most 3 entries, the loop executes at most 3 passes.             *)
(***************************************************************************)
C17_AtMostThreePasses ==
  (InputContract /\ \A i \in 1..Len(dbVotes) : Len(dbVotes[i].choices) <= MaxChoices)
     => iterations <= MaxChoices

(***************************************************************************)
(* C17, amended: on input satisfying the input contract, whose lists have  *)
(* at most 3 entries, the loop executes at most 4 passes: at most 3 passes *)
(* that move a voter, and the pass that finds no voter to move and ends    *)
(* the loop.                                                               *)
(***************************************************************************)
C17_AtMostFourPasses ==
  (InputContract /\ \A i \in 1..Len(dbVotes) : Len(dbVotes[i].choices) <= MaxChoices)
     => /\ iterations <= MaxChoices + 1
        /\ (pc = "loop" /\ iterations = MaxChoices + 1) => ~changed

\* a voter went down all three choices and a fourth pass found nothing to
\* move
C17_Witness ==
  /\ pc = "done" /\ InputContract
  /\ iterations = MaxChoices + 1
  /\ \E i \in Voters :
        Len(voterAllocations[i].choices) = MaxChoices /\ voterAllocations[i].allocatedTo = NULL

(***************************************************************************)
(* C20, as claimed: for some input satisfying the input contract, a pass   *)
(* leaves an option that was viable (demand >= 4) at its start unviable    *)
(* (0 < demand < 4). The inputs are the votes of the model that satisfy    *)
(* the contract; the loop is run on each of them with the stored catalog.  *)
(***************************************************************************)
ContractBallots == { b \in Ballots : b.choices \in RankedLists \cup UnsortedLists }

ContractInputs == UNION { [1..n -> ContractBallots] : n \in 0..MaxVoters }

\* some pass of the loop run from the given state turns a viable option
\* unviable
RECURSIVE ViableTurnsUnviable(_, _, _, _)
ViableTurnsUnviable(options, allocs, chg, iters) ==
  IF LoopContinues(chg, iters)
  THEN LET pass == PassResult(options, allocs)
       IN \/ \E id \in OptionIds(options) :
                /\ SlicesAllocatedTo(allocs, id) >= MIN_SLICES_TO_ROUND_UP
                /\ SlicesAllocatedTo(pass.allocs, id) > 0
                /\ SlicesAllocatedTo(pass.allocs, id) < MIN_SLICES_TO_ROUND_UP
          \/ ViableTurnsUnviable(options, pass.allocs, pass.changed, iters + 1)
  ELSE FALSE

C20_ViableTurnsUnviable ==
  \E ballots \in ContractInputs :
     ViableTurnsUnviable(dbOptions,
                         [i \in DOMAIN ballots |-> NewAllocation(VoteRow(i, ballots[i]))],
                         TRUE, 0)

(***************************************************************************)
(* C20, amended: a pass never lowers the demand of an option that is       *)
(* viable (demand >= 4) at its start, so a viable option stays viable in   *)
(* every later pass; voters leave unviable options only, and what a pass   *)
(* changes for a viable option is that moved voters join it.               *)
(***************************************************************************)
C20_ViableStaysViable ==
  [][ pc = "loop" =>
        \A id \in OptionIds(pizzaOptions) \cup {ForeignId} :
           DemandOf(id) >= MIN_SLICES_TO_ROUND_UP =>
              SlicesAllocatedTo(voterAllocations', id) >= DemandOf(id) ]_vars

\* the first pass moved a voter onto the viable first choice of the other
\* voter
C20_Witness ==
  /\ pc = "loop" /\ iterations = 1 /\ InputContract
  /\ \E i, j \in Voters :
        /\ i # j
        /\ voterAllocations[j].sliceCount >= MIN_SLICES_TO_ROUND_UP
        /\ voterAllocations[j].allocatedTo = voterAllocations[j].choices[1].pizzaOptionId
        /\ voterAllocations[i].allocatedTo = voterAllocations[j].allocatedTo
        /\ voterAllocations[i].allocatedTo # voterAllocations[i].choices[1].pizzaOptionId

(***************************************************************************)
(* C13: a submitted vote is accepted only if its sliceCount is an integer  *)
(* from 1 to 4; sliceCount 0, sliceCount 5 or more and a sliceCount that   *)
(* is not an integer are rejected by voteSchema.                           *)
(***************************************************************************)
\* voteSchema.parse has returned the data
SubmissionAccepted == submitPc \notin {"idle", "parse", "rejected"}

C13_SliceCountOneToFour ==
  SubmissionAccepted =>
     /\ IsInt(request.body.sliceCount)
     /\ NumberValue(request.body.sliceCount) >= 1
     /\ NumberValue(request.body.sliceCount) <= 4

(***************************************************************************)
(* C14: a submitted vote with an integer sliceCount from 1 to 4 is         *)
(* accepted if and only if it has 2 or 3 choices, the priorities are       *)
(* exactly 1..n, and the pizzaOptionIds are non-empty and pairwise         *)
(* distinct.                                                               *)
(***************************************************************************)
\* 2 or 3 choices, priorities exactly 1..n, ids non-empty and distinct
RankedTwoOrThree(choices) ==
  LET n == Len(choices)
  IN /\ n \in {2, 3}
     /\ \A p \in 1..n : Cardinality({ k \in 1..n : choices[k].priority = p }) = 1
     /\ \A k \in 1..n : choices[k].pizzaOptionId # ""
     /\ \A a, b \in 1..n : a # b => choices[a].pizzaOptionId # choices[b].pizzaOptionId

C14_TwoOrThreeChoices ==
  (/\ submitPc \notin {"idle", "parse"}
   /\ IsInt(request.body.sliceCount)
   /\ NumberValue(request.body.sliceCount) \in 1..4)
     => (SubmissionAccepted <=> RankedTwoOrThree(request.body.choices))

(***************************************************************************)
(* C15: the votes and the catalog a report computation uses are one        *)
(* consistent snapshot, also when votes and options are written while the  *)
(* report is generated: every choice of a fetched vote references an       *)
(* option of the fetched catalog.                                          *)
(***************************************************************************)
C15_ConsistentSnapshot ==
  pc \in {"allocate", "loop", "done"} =>
     \A i \in 1..Len(votes) : \A k \in 1..Len(votes[i].choices) :
        votes[i].choices[k].pizzaOptionId \in OptionIds(pizzaOptions)

(***************************************************************************)
(* C16: two report computations that run concurrently share no allocation  *)
(* or demand state: under every interleaving of their steps with each      *)
(* other and with writes to the stored data, each returns the report that  *)
(* generateReport computes from the votes and the catalog that this        *)
(* computation fetched.                                                    *)
(***************************************************************************)
C16_RunsIndependent ==
  /\ pc = "done" => report = GenerateReport(votes, pizzaOptions)
  /\ other.pc = "done" =>
        other.report = GenerateReport(other.votes, other.pizzaOptions)

\* the computations overlapped: the first read the votes before a write
\* that the second saw, and the catalog after a deletion that the second
\* did not see; both have returned, with different reports
C16_Witness ==
  /\ pc = "done" /\ other.pc = "done"
  /\ votes = StoredVotes /\ other.votes # StoredVotes
  /\ Len(pizzaOptions) < Len(other.pizzaOptions)
  /\ report # other.report

(***************************************************************************)
(* C21: at the start of every pass and in the final demand, the demand of  *)
(* each catalog option is the sum of sliceCount over exactly the voters    *)
(* allocated to it: a voter's whole sliceCount counts toward the one       *)
(* option the voter is allocated to, and toward none when the voter is     *)
(* unallocated.                                                            *)
(***************************************************************************)
\* the voters allocated to the option
AllocatedVoters(id) == { i \in Voters : voterAllocations[i].allocatedTo = id }

\* the sum of their sliceCounts
AllocatedSlices(id) ==
  SumOver(AllocatedVoters(id), [i \in Voters |-> voterAllocations[i].sliceCount])

C21_DemandIsSumOfAllocated ==
  /\ pc = "loop" =>
        \A id \in OptionIds(pizzaOptions) :
           DemandMap(pizzaOptions, voterAllocations)[id] = AllocatedSlices(id)
  /\ pc = "done" =>
        \A k \in 1..Len(pizzaOptions) :
           /\ FinalDemand(pizzaOptions, voterAllocations)[k].totalSlices
                 = AllocatedSlices(pizzaOptions[k].id)
           /\ \A n \in LinesOf(pizzaOptions[k].name) :
                 report.pizzaOrders[n].slicesRequested = AllocatedSlices(pizzaOptions[k].id)

\* two voters ended on one option, which is ordered with the slices of
\* both, one of them moved there from another first choice
C21_Witness ==
  /\ pc = "done" /\ Len(voterAllocations) = 2
  /\ voterAllocations[1].allocatedTo = voterAllocations[2].allocatedTo
  /\ voterAllocations[1].allocatedTo \in OptionIds(pizzaOptions)
  /\ voterAllocations[1].choices[1].pizzaOptionId # voterAllocations[2].choices[1].pizzaOptionId
  /\ Len(report.pizzaOrders) = 1
  /\ report.pizzaOrders[1].slicesRequested
        = voterAllocations[1].sliceCount + voterAllocations[2].sliceCount

(***************************************************************************)
(* C22: the voter breakdown has one entry per input vote, in input order,  *)
(* with the voter's sliceCount as stored and the voter's choices in        *)
(* ascending priority; allocatedTo is the name of the option the voter is  *)
(* finally allocated to, and for a voter whose choices are options of the  *)
(* fetched catalog it is the sentinel 'Not allocated' if and only if the   *)
(* voter ended unallocated.                                                *)
(***************************************************************************)
\* how often the list of breakdown choices holds the entry
TimesListed(choices, e) == Cardinality({ k \in 1..Len(choices) : choices[k] = e })

\* a stored choice as the breakdown shows it
ShownChoice(c) == [pizzaName |-> OptionName(c.pizzaOptionId), priority |-> c.priority]

\* the name the fetched catalog gives the option
NameInCatalog(id) == pizzaOptions[CatalogIndexOfId(id)].name

RankedVote(v) ==
  \A a, b \in 1..Len(v.choices) :
     a # b => /\ v.choices[a].pizzaOptionId # v.choices[b].pizzaOptionId
              /\ v.choices[a].priority # v.choices[b].priority

\* all the slices of the event are fewer than one rounding threshold
FewSlices ==
  /\ Len(dbVotes) > 0
  /\ SumOver(DOMAIN dbVotes, [i \in DOMAIN dbVotes |-> dbVotes[i].sliceCount]) < 4
  /\ \A i \in DOMAIN dbVotes : RankedVote(dbVotes[i])

C23_FewSlicesAllUnallocated ==
  FewSlices =>
     /\ pc = "loop" =>
           \A i \in Voters :
              voterAllocations[i].allocatedTo =
                 IF iterations < Len(voterAllocations[i].choices)
                 THEN voterAllocations[i].choices[iterations + 1].pizzaOptionId
                 ELSE NULL
     /\ pc = "done" =>
           /\ \A i \in Voters : voterAllocations[i].allocatedTo = NULL
           /\ report.pizzaOrders = << >>
           /\ report.totalPizzas = 0
           /\ Len(report.droppedOptions) = Len(dbVotes)
           /\ \A i \in Voters :
                 Cardinality(EntriesEqualTo(
                    VoterDropped(UserName(dbVotes[i].userId), dbVotes[i].sliceCount))) = 1

\* two voters with three slices between them went down lists of two and
\* of three choices
C23_Witness ==
  /\ pc = "done" /\ FewSlices /\ InputContract
  /\ Len(dbVotes) = 2
  /\ Len(dbVotes[1].choices) + Len(dbVotes[2].choices) = 5
  /\ Len(report.droppedOptions) = 2
  /\ report.pizzaOrders = << >>

(***************************************************************************)
(* C24: when the voters whose priority-1 choice is the catalog option X    *)
(* together request at least 4 slices, none of them is ever moved off X,   *)
(* and X is in the order list with quantity                                *)
(* floor(d / 8) + (1 if d mod 8 >= 4 else 0) >= 1, where d, the final      *)
(* demand of X, is at least their combined slices.                         *)
(***************************************************************************)
\* the voters who start on the option
FirstChoiceVoters(id) ==
  { i \in Voters : /\ Len(voterAllocations[i].choices) > 0
                   /\ voterAllocations[i].choices[1].pizzaOptionId = id }

FirstChoiceSlices(id) ==
  SumOver(FirstChoiceVoters(id), [i \in Voters |-> voterAllocations[i].sliceCount])

C24_PopularFirstChoiceKept ==
  pc \in {"loop", "done"} =>
     \A x \in 1..Len(pizzaOptions) :
        LET id == pizzaOptions[x].id
        IN FirstChoiceSlices(id) >= 4 =>
             /\ \A i \in FirstChoiceVoters(id) : voterAllocations[i].allocatedTo = id
             /\ pc = "done" =>
                   LET d == AllocatedSlices(id)
                   IN /\ d >= FirstChoiceSlices(id)
                      /\ Cardinality(LinesOf(pizzaOptions[x].name)) = 1
                      /\ \A n \in LinesOf(pizzaOptions[x].name) :
                            /\ report.pizzaOrders[n].quantity
                                  = (d \div 8) + (IF d % 8 >= 4 THEN 1 ELSE 0)
                            /\ report.pizzaOrders[n].quantity >= 1
                            /\ report.pizzaOrders[n].slicesRequested = d

\* two voters of two slices each, with lists of different length that
\* start with the same option: one pizza of it is ordered
C24_Witness ==
  /\ pc = "done" /\ InputContract /\ Len(voterAllocations) = 2
  /\ voterAllocations[1].sliceCount = 2 /\ voterAllocations[2].sliceCount = 2
  /\ voterAllocations[1].choices[1].pizzaOptionId = voterAllocations[2].choices[1].pizzaOptionId
  /\ Len(voterAllocations[1].choices) # Len(voterAllocations[2].choices)
  /\ iterations = 1
  /\ Len(report.pizzaOrders) = 1
  /\ report.pizzaOrders[1].quantity = 1
  /\ report.pizzaOrders[1].slicesRequested = 4

(***************************************************************************)
(* C25: replacing an existing vote is atomic for readers: no report        *)
(* computation that runs next to a vote update fetches that vote with its  *)
(* old choices deleted and its new choices not yet created. Every stored   *)
(* vote and every submitted vote has choices, so a fetched vote without    *)
(* choices is a vote read between the two statements.                      *)
(***************************************************************************)
C25_UpdateAtomicForReaders ==
  /\ pc \in {"fetchOptions", "allocate", "loop", "done"} =>
        \A i \in 1..Len(votes) : Len(votes[i].choices) > 0
  /\ other.pc \in {"fetchOptions", "allocate", "loop", "done"} =>
        \A i \in 1..Len(other.votes) : Len(other.votes[i].choices) > 0

(***************************************************************************)
(* C26: on input satisfying the input contract the loop is left because a  *)
(* pass moved no voter, before the cap of 10 passes; the loop is left at   *)
(* the cap with voters still moving only when a vote lists one option at   *)
(* two priorities.                                                         *)
(***************************************************************************)
C26_ExitByFixedPoint ==
  /\ (LoopEnded /\ InputContract) => (~changed /\ iterations < maxIterations)
  /\ (LoopEnded /\ changed) =>
        /\ iterations = maxIterations
        /\ \E i \in Voters : ~DistinctOptions(voterAllocations[i])

\* two voters left thin first choices in the first pass, and the second
\* pass moved nobody
C26_Witness ==
  /\ pc = "done" /\ InputContract /\ ~changed
  /\ iterations = 2
  /\ Len(voterAllocations) = 2
  /\ \A i \in Voters :
        /\ Len(voterAllocations[i].choices) >= 2
        /\ voterAllocations[i].allocatedTo = voterAllocations[i].choices[2].pizzaOptionId

(***************************************************************************)
(* C27: the final allocation of every voter, the final demand of every     *)
(* option and every order line are independent of the order in which the   *)
(* votes are listed: for every permutation of the vote list the report has *)
(* the same order lines, totals and dropped remainders, the same breakdown *)
(* entry for every voter, and the same unallocated-voter entries; only the *)
(* order of the breakdown and of the unallocated-voter entries follows the *)
(* vote list.                                                              *)
(***************************************************************************)
\* the vote list in the order given by the permutation
Permuted(list, perm) == [i \in 1..Len(list) |-> list[perm[i]]]

\* the entries of a dropped list of the given kind, in order
DroppedOfKind(dropped, kind) ==
  LET OfKind(e) == e.kind = kind IN SelectSeq(dropped, OfKind)

\* the places of a list that hold the given entry
PlacesOf(list, e) == { k \in 1..Len(list) : list[k] = e }

\* the two lists hold the same entries the same number of times
SameEntries(l1, l2) ==
  /\ Len(l1) = Len(l2)
  /\ \A k \in 1..Len(l1) :
        Cardinality(PlacesOf(l1, l1[k])) = Cardinality(PlacesOf(l2, l1[k]))

SameReportForVoters(r, q, perm) ==
  /\ q.pizzaOrders = r.pizzaOrders
  /\ q.totalPizzas = r.totalPizzas
  /\ q.totalSlices = r.totalSlices
  /\ q.summary = r.summary
  /\ DroppedOfKind(q.droppedOptions, "remainder") = DroppedOfKind(r.droppedOptions, "remainder")
  /\ SameEntries(DroppedOfKind(q.droppedOptions, "unallocated"),
                 DroppedOfKind(r.droppedOptions, "unallocated"))
  /\ q.voterBreakdown = Permuted(r.voterBreakdown, perm)

\* the permutations of the places of the vote list that move a vote
Reorderings(list) ==
  Permutations(1..Len(list)) \ { [i \in 1..Len(list) |-> i] }

C27_VoteOrderIrrelevant ==
  [](pc = "done" =>
       \A perm \in Reorderings(dbVotes) :
          SameReportForVoters(report,
                              GenerateReport(Permuted(dbVotes, perm), pizzaOptions),
                              perm))

\* two voters with different first choices: one left a thin option and
\* joined the other, and the vote list has an order to permute
C27_Witness ==
  /\ pc = "done" /\ Len(dbVotes) = 2 /\ InputContract
  /\ dbVotes[1].choices # dbVotes[2].choices
  /\ dbVotes[1].sliceCount < MIN_SLICES_TO_ROUND_UP
  /\ dbVotes[2].sliceCount < MIN_SLICES_TO_ROUND_UP
  /\ voterAllocations[1].allocatedTo = voterAllocations[2].allocatedTo
  /\ voterAllocations[1].allocatedTo # NULL
  /\ voterAllocations[1].choices[1].pizzaOptionId # voterAllocations[2].choices[1].pizzaOptionId

(***************************************************************************)
(* C28: on contract input the slices are all accounted for: the final      *)
(* demand summed over the catalog options plus the slice counts of the     *)
(* unallocated voters equals summary.totalSlicesRequested, and the         *)
(* slicesRequested of the order lines sum to the final demand of all       *)
(* options.                                                                *)
(***************************************************************************)
\* final demand of the option, as the report's data is built from it
FinalDemandOf(id) ==
  LET finalDemand == FinalDemand(pizzaOptions, voterAllocations)
  IN finalDemand[CatalogIndexOfId(id)].totalSlices

SumSlicesRequested(lines) ==
  SumOver(DOMAIN lines, [k \in DOMAIN lines |-> lines[k].slicesRequested])

C28_SlicesAccounted ==
  (pc = "done" /\ InputContract) =>
     LET demand == SumOver(OptionIds(pizzaOptions),
                           [id \in OptionIds(pizzaOptions) |-> FinalDemandOf(id)])
         lost == SumOver(UnallocatedVoters,
                         [i \in UnallocatedVoters |-> voterAllocations[i].sliceCount])
     IN /\ demand + lost = report.summary.totalSlicesRequested
        /\ SumSlicesRequested(report.pizzaOrders) = demand

\* one voter ordered and one voter unallocated, so both sums have a part
C28_Witness ==
  /\ pc = "done" /\ InputContract
  /\ Len(report.pizzaOrders) = 1
  /\ UnallocatedVoters # {}
  /\ report.summary.totalSlicesRequested > report.pizzaOrders[1].slicesRequested

(***************************************************************************)
(* C29: in every state of the reallocation, from the first allocation to   *)
(* the end of the loop and in the assembled report's allocation, a voter's *)
(* allocatedTo is either unallocated or the pizzaOptionId of one of that   *)
(* voter's own ranked choices.                                             *)
(***************************************************************************)
OwnChoiceIds(voter) ==
  { voter.choices[k].pizzaOptionId : k \in 1..Len(voter.choices) }

C29_AllocatedToOwnChoice ==
  pc \in {"loop", "done"} =>
     \A i \in Voters :
        \/ voterAllocations[i].allocatedTo = NULL
        \/ voterAllocations[i].allocatedTo \in OwnChoiceIds(voterAllocations[i])

\* during the loop, one voter has been moved to a later choice of its own
\* and another has run out of choices
C29_Witness ==
  /\ pc = "loop" /\ iterations >= 2
  /\ \E i, j \in Voters :
        /\ voterAllocations[i].allocatedTo = NULL
        /\ Len(voterAllocations[i].choices) >= 1
        /\ Len(voterAllocations[j].choices) >= 2
        /\ voterAllocations[j].allocatedTo # NULL
        /\ voterAllocations[j].allocatedTo # voterAllocations[j].choices[1].pizzaOptionId
        /\ voterAllocations[j].allocatedTo \in OwnChoiceIds(voterAllocations[j])

(***************************************************************************)
(* C30: for every order line, 8 * quantity - slicesRequested lies between  *)
(* -3 and +4; so report.totalSlices, which is 8 * totalPizzas, is at least *)
(* the sum of slicesRequested minus 3 per line and at most that sum plus 4 *)
(* per line.                                                               *)
(***************************************************************************)
\* slices bought over slices requested on one order line
Surplus(line) == SLICES_PER_PIZZA * line.quantity - line.slicesRequested

C30_SurplusBounded ==
  pc = "done" =>
     LET lines == report.pizzaOrders
         requested == SumSlicesRequested(lines)
     IN /\ \A n \in 1..Len(lines) : Surplus(lines[n]) \in -3..4
        /\ report.totalSlices = SLICES_PER_PIZZA * report.totalPizzas
        /\ report.totalSlices >= requested - 3 * Len(lines)
        /\ report.totalSlices <= requested + 4 * Len(lines)

\* two voters on one option ask for 11 slices and one pizza is ordered:
\* the line is 3 slices short
C30_Witness ==
  /\ pc = "done"
  /\ Len(report.pizzaOrders) = 1
  /\ Surplus(report.pizzaOrders[1]) = -3
  /\ report.totalSlices = report.pizzaOrders[1].slicesRequested - 3

\* two lines of 4 slices buy a whole pizza each: 4 slices over per line
C30_WitnessOver ==
  /\ pc = "done"
  /\ Len(report.pizzaOrders) = 2
  /\ \A n \in 1..2 : Surplus(report.pizzaOrders[n]) = 4
  /\ report.totalSlices = SumSlicesRequested(report.pizzaOrders) + 8

====
